---- MODULE Spec2Model ----
(***************************************************************************)
(* steit: the path-addressed Runtime (steit/src/rt/runtime.rs) and the      *)
(* code that steit-derive generates per field (steit-derive/src/field.rs):  *)
(* setters that log before they assign, and the per-field decode arm.       *)
(*                                                                          *)
(* Spec     Runtime handles of one state tree and the shared log.           *)
(* SpecTree the same, with more handles and a shorter log.                  *)
(* SpecEq   the same operations over several trees (several loggers).       *)
(* SpecObj  generated setters of a struct.                                  *)
(* SpecEnum generated setters of an enum.                                   *)
(* SpecDec  the generated tag-dispatch decode loop.                         *)
(***************************************************************************)
EXTENDS Integers, Sequences, FiniteSets, TLC

VARIABLES
    rt,       \* the live Runtime handles, in creation order
    log,      \* log[l]: the buffer behind Logger l, shared by its clones
    issued,   \* issued[l]: the successful logging calls on Logger l, in call order
    result,   \* outcome of the last call: "Ok", "SinkError", "AddressError", "DecodeError"
    obj,      \* the generated object under test (SpecObj, SpecEnum, SpecDec)
    call,     \* the logging calls the last setter made, in order
    reader,   \* the bytes the decoder has not consumed yet
    seen      \* the header the last decode step read, and what became of its field

vars == <<rt, log, issued, result, obj, call, reader, seen>>

(* ------------------------------ bounds -------------------------------- *)

\* Spec: Runtime handles alive, records in the log
MaxRuntimes == 2
MaxLog == 2

\* SpecTree: Runtime handles alive, records in the log
TreeMaxRuntimes == 3
TreeMaxLog == 1

\* SpecEq: trees (Runtime::new() calls), handles, records in all logs
MaxTrees == 2
EqMaxRuntimes == 3
EqMaxLog == 1

\* SpecObj, SpecEnum: records in the log
MaxObjLog == 3
MaxEnumLog == 4

\* SpecDec: bytes in a stream
MaxStream == 3

\* field tags (u16 in the code) and u32 payloads the calls are made with
Tags == {1, 2}
Values == {42, 300}

(* ------------------------- Option<T> -------------------------------- *)

None == [some |-> FALSE]
Some(x) == [some |-> TRUE, val |-> x]

(* ------------------------- Node<u16> -------------------------------- *)

Node_Root == [type |-> "Root"]

Node_child(parent, tag) == [type |-> "Child", parent |-> parent, tag |-> tag]

Node_parent(node) == IF node.type = "Root" THEN None ELSE Some(node.parent)

\* the root-to-node sequence of tags: the address a Node stands for
RECURSIVE Node_tags(_)
Node_tags(node) ==
    IF node.type = "Root" THEN <<>>
    ELSE Append(Node_tags(node.parent), node.tag)

(* ------------------------- Serialize -------------------------------- *)

\* base-128 varint, least significant group first
RECURSIVE Varint(_)
Varint(n) ==
    IF n < 128 THEN <<n>>
    ELSE <<(n % 128) + 128>> \o Varint(n \div 128)

U32(n) == [ty |-> "u32", v |-> n]

(* ------------------------- the derived types ------------------------ *)
(* The generator is applied to                                           *)
(*   struct Inner  { runtime, #[steit(tag = 3)] v: u32 }                  *)
(*   struct Outer  { runtime, #[steit(tag = 1)] a: u32,                   *)
(*                            #[steit(tag = 2)] inner: Inner }            *)
(*   enum   Choice { #[steit(tag = 1)] First  { runtime, #[steit(tag = 3)] x: u32 }, *)
(*                   #[steit(tag = 2)] Second { runtime, #[steit(tag = 4)] y: u32 } } *)

FieldA == [name |-> "a", tag |-> 1, kind |-> "Primitive"]
FieldInner == [name |-> "inner", tag |-> 2, kind |-> "State"]
FieldV == [name |-> "v", tag |-> 3, kind |-> "Primitive"]

VariantFirst == [name |-> "First", tag |-> 1, field |-> [name |-> "x", tag |-> 3, kind |-> "Primitive"]]
VariantSecond == [name |-> "Second", tag |-> 2, field |-> [name |-> "y", tag |-> 4, kind |-> "Primitive"]]
Variants == {VariantFirst, VariantSecond}

VariantOf(self) == CHOOSE V \in Variants : V.name = self.variant

IndexedField_wire_type(f) == IF f.kind = "Primitive" THEN 0 ELSE 2

\* the header (tag << 3 | wire_type), then the field's own encoding
IndexedField_get_serializer(f, encoded) ==
    Varint(f.tag * 8 + IndexedField_wire_type(f)) \o encoded

\* a length-delimited value: the byte length, then the bytes
LengthDelimited(body) == Varint(Len(body)) \o body

Serialize(value) ==
    CASE value.ty = "u32" -> Varint(value.v)
      [] value.ty = "Inner" ->
           LengthDelimited(IndexedField_get_serializer(FieldV, Varint(value.v)))
      [] value.ty = "Choice" ->
           LengthDelimited(IndexedField_get_serializer(VariantOf(value).field, Varint(value.f)))

(* ------------------------- LogEntry, Logger ------------------------- *)

LogEntry_new_update(runtime, value) ==
    [kind |-> "Update", path |-> Node_tags(runtime.path), payload |-> Serialize(value)]

LogEntry_new_add(runtime, item) ==
    [kind |-> "Add", path |-> Node_tags(runtime.path), payload |-> Serialize(item)]

LogEntry_new_remove(runtime) ==
    [kind |-> "Remove", path |-> Node_tags(runtime.path)]

\* sinkOk: whether the underlying sink accepts the record
Logger_log_entry(logs, logger, entry, sinkOk) ==
    IF sinkOk
    THEN [logs |-> [logs EXCEPT ![logger] = Append(@, entry)], res |-> "Ok"]
    ELSE [logs |-> logs, res |-> "SinkError"]

(* ------------------------- Runtime ---------------------------------- *)

Runtime_new(logger) == [logger |-> logger, path |-> Node_Root]

\* faulty variant: the address rebuilt from the root instead of from self.path
Runtime_nested_from_root(self, tag) ==
    [logger |-> self.logger, path |-> Node_child(Node_Root, tag)]

Runtime_nested(self, tag) ==
    [logger |-> self.logger, path |-> Node_child(self.path, tag)]

\* faulty variant: a Root address answers with itself instead of failing
Runtime_parent_or_self(self) ==
    LET p == Node_parent(self.path) IN
    [ok |-> TRUE,
     val |-> [logger |-> self.logger, path |-> IF p.some THEN p.val ELSE self.path]]

\* faulty variant: the parent built on a Logger of its own instead of a clone
Runtime_parent_own_logger(self) ==
    LET p == Node_parent(self.path) IN
    IF p.some
    THEN [ok |-> TRUE, val |-> [logger |-> 0, path |-> p.val]]
    ELSE [ok |-> FALSE, err |-> "AddressError"]

Runtime_parent(self) ==
    LET p == Node_parent(self.path) IN
    IF p.some
    THEN [ok |-> TRUE, val |-> [logger |-> self.logger, path |-> p.val]]
    ELSE [ok |-> FALSE, err |-> "AddressError"]

Runtime_is_root(self) == self.path.type = "Root"

Runtime_is_child(self) == ~Runtime_is_root(self)

\* faulty variant: the record addressed at self, the tag dropped
Runtime_log_update_untagged(logs, self, tag, value, sinkOk) ==
    Logger_log_entry(logs, self.logger, LogEntry_new_update(self, value), sinkOk)

Runtime_log_update(logs, self, tag, value, sinkOk) ==
    Logger_log_entry(logs, self.logger,
                     LogEntry_new_update(Runtime_nested(self, tag), value), sinkOk)

Runtime_log_update_in_place(logs, self, value, sinkOk) ==
    Logger_log_entry(logs, self.logger, LogEntry_new_update(self, value), sinkOk)

Runtime_log_add(logs, self, item, sinkOk) ==
    Logger_log_entry(logs, self.logger, LogEntry_new_add(self, item), sinkOk)

\* faulty variant: a removal that erases the last record instead of appending one
Runtime_log_remove_erasing(logs, self, tag, sinkOk) ==
    [logs |-> [logs EXCEPT ![self.logger] = SubSeq(@, 1, Len(@) - 1)], res |-> "Ok"]

Runtime_log_remove(logs, self, tag, sinkOk) ==
    Logger_log_entry(logs, self.logger,
                     LogEntry_new_remove(Runtime_nested(self, tag)), sinkOk)

\* faulty variant: the derived, field-by-field comparison
Runtime_eq_derived(self, other) ==
    self.logger = other.logger /\ self.path = other.path

Runtime_eq(self, other) == TRUE

(* ------------------------- the calls a program makes ---------------- *)

Handles == DOMAIN rt

\* what a successful logging call is recorded as, for the call history
Issue(op, self, tag, value) ==
    [op |-> op, addr |-> Node_tags(self.path), tag |-> tag, value |-> value]

Logged(r, c) ==
    /\ log' = r.logs
    /\ result' = r.res
    /\ issued' = IF r.res = "Ok"
                 THEN [issued EXCEPT ![c.logger] = Append(@, c.call)]
                 ELSE issued
    /\ UNCHANGED <<rt, obj, call, reader, seen>>

\* the variables a specification does not use
NoObject == [ty |-> "none"]
NoCall == <<>>
NoReader == <<>>
NoSeen == [tag |-> 0, wire |-> 0, outcome |-> "none"]
ObjIdle == UNCHANGED <<obj, call, reader, seen>>

Init ==
    /\ rt = <<Runtime_new(1)>>
    /\ log = << <<>> >>
    /\ issued = << <<>> >>
    /\ result = "Ok"
    /\ obj = NoObject
    /\ call = NoCall
    /\ reader = NoReader
    /\ seen = NoSeen

\* Runtime::new(): a fresh Root address on a fresh Logger
New ==
    /\ rt' = Append(rt, Runtime_new(Len(log) + 1))
    /\ log' = Append(log, <<>>)
    /\ issued' = Append(issued, <<>>)
    /\ result' = "Ok"
    /\ ObjIdle

Nested(h, t) ==
    /\ rt' = Append(rt, Runtime_nested(rt[h], t))
    /\ result' = "Ok"
    /\ UNCHANGED <<log, issued>>
    /\ ObjIdle

\* the expect() of a missing parent panics: the call returns nothing, and the
\* caller that catches the unwinding goes on with the state as it was
Parent(h) ==
    LET r == Runtime_parent(rt[h]) IN
    /\ ObjIdle
    /\ IF r.ok
       THEN /\ rt' = Append(rt, r.val)
            /\ result' = "Ok"
            /\ UNCHANGED <<log, issued>>
       ELSE /\ result' = r.err
            /\ UNCHANGED <<rt, log, issued>>

LogUpdate(h, t, v) ==
    \E sinkOk \in BOOLEAN :
        Logged(Runtime_log_update(log, rt[h], t, U32(v), sinkOk),
               [logger |-> rt[h].logger, call |-> Issue("log_update", rt[h], t, v)])

LogUpdateInPlace(h, v) ==
    \E sinkOk \in BOOLEAN :
        Logged(Runtime_log_update_in_place(log, rt[h], U32(v), sinkOk),
               [logger |-> rt[h].logger, call |-> Issue("log_update_in_place", rt[h], 0, v)])

LogAdd(h, v) ==
    \E sinkOk \in BOOLEAN :
        Logged(Runtime_log_add(log, rt[h], U32(v), sinkOk),
               [logger |-> rt[h].logger, call |-> Issue("log_add", rt[h], 0, v)])

LogRemove(h, t) ==
    \E sinkOk \in BOOLEAN :
        Logged(Runtime_log_remove(log, rt[h], t, sinkOk),
               [logger |-> rt[h].logger, call |-> Issue("log_remove", rt[h], t, 0)])

\* the bounds of a run: handles alive, records logged
Room(maxRt) == Len(rt) < maxRt

RECURSIVE Records(_)
Records(logs) == IF logs = <<>> THEN 0 ELSE Len(Head(logs)) + Records(Tail(logs))

LogRoom(maxLog) == Records(log) < maxLog

Calls(maxRt, maxLog) ==
    \/ \E h \in Handles, t \in Tags : Room(maxRt) /\ Nested(h, t)
    \/ \E h \in Handles : (Runtime_is_child(rt[h]) => Room(maxRt)) /\ Parent(h)
    \/ \E h \in Handles, t \in Tags, v \in Values :
           LogRoom(maxLog) /\ LogUpdate(h, t, v)
    \/ \E h \in Handles, v \in Values : LogRoom(maxLog) /\ LogUpdateInPlace(h, v)
    \/ \E h \in Handles, v \in Values : LogRoom(maxLog) /\ LogAdd(h, v)
    \/ \E h \in Handles, t \in Tags : LogRoom(maxLog) /\ LogRemove(h, t)

Next == Calls(MaxRuntimes, MaxLog)

Spec == Init /\ [][Next]_vars

NextTree == Calls(TreeMaxRuntimes, TreeMaxLog)

SpecTree == Init /\ [][NextTree]_vars

NextEq ==
    \/ Len(log) < MaxTrees /\ Room(EqMaxRuntimes) /\ New
    \/ Calls(EqMaxRuntimes, EqMaxLog)

SpecEq == Init /\ [][NextEq]_vars

(* ------------------------- generated code --------------------------- *)

\* faulty variant: the variant's tag ignored, the Runtime stored as passed in
RuntimeField_get_init_untagged(runtime, tag) == runtime

\* the Runtime a constructor stores: runtime.nested(tag) for a variant, else runtime
RuntimeField_get_init(runtime, tag) ==
    IF tag.some THEN Runtime_nested(runtime, tag.val) ELSE runtime

\* a field's initial value: the default of a primitive, or a nested object
\* constructed on runtime.nested(tag)
Inner_new(runtime) ==
    [ty |-> "Inner", runtime |-> RuntimeField_get_init(runtime, None), v |-> 0]

IndexedField_get_init(f, runtime) ==
    IF f.kind = "Primitive" THEN 0 ELSE Inner_new(Runtime_nested(runtime, f.tag))

Outer_new(runtime) ==
    [ty |-> "Outer",
     runtime |-> RuntimeField_get_init(runtime, None),
     a |-> IndexedField_get_init(FieldA, runtime),
     inner |-> IndexedField_get_init(FieldInner, runtime)]

Choice_new(runtime, variant) ==
    [ty |-> "Choice",
     variant |-> variant.name,
     runtime |-> RuntimeField_get_init(runtime, Some(variant.tag)),
     f |-> IndexedField_get_init(variant.field, runtime)]

\* one logging call of a setter, as the generated code makes it
Made(by, op, recv, tag) == [by |-> by, op |-> op, recv |-> recv, tag |-> tag]

\* the closure a caller hands to a `set_.._with` setter: it builds the value on
\* the Runtime it is given ("given") or on one it captured ("captured")
Closures == {"given", "captured"}

GetValue(get_value, runtime, captured) ==
    IF get_value = "given" THEN Inner_new(runtime) ELSE Inner_new(captured)

\* faulty variant: the field assigned whether or not the logging call succeeded
Setter_primitive_unlogged(self, logs, field, value, sinkOk) ==
    LET r == Runtime_log_update(logs, self.runtime, field.tag, U32(value), sinkOk) IN
    [self |-> [self EXCEPT ![field.name] = value],
     logs |-> r.logs,
     res |-> r.res,
     calls |-> <<Made("set_" \o field.name, "log_update", self.runtime, field.tag)>>]

\* set_<field>(value) of a primitive field: log_update(tag, &value).unwrap(),
\* then the assignment; the unwrap() of a failed logging call panics, and the
\* rest of the setter does not run
Setter_primitive(self, logs, field, value, sinkOk) ==
    LET r == Runtime_log_update(logs, self.runtime, field.tag, U32(value), sinkOk) IN
    [self |-> IF r.res = "Ok" THEN [self EXCEPT ![field.name] = value] ELSE self,
     logs |-> r.logs,
     res |-> r.res,
     calls |-> <<Made("set_" \o field.name, "log_update", self.runtime, field.tag)>>]

\* faulty variant: the replacement logged in place through its own Runtime
Setter_state_in_place(self, logs, field, get_value, captured, sinkOk) ==
    LET runtime == self.runtime
        value == GetValue(get_value, Runtime_nested(runtime, field.tag), captured)
        r == Runtime_log_update_in_place(logs, value.runtime, value, sinkOk) IN
    [self |-> IF r.res = "Ok" THEN [self EXCEPT ![field.name] = value] ELSE self,
     logs |-> r.logs,
     res |-> r.res,
     calls |-> <<Made("set_" \o field.name \o "_with", "log_update_in_place", value.runtime, 0)>>]

\* set_<field>_with(get_value) of a nested-object field
Setter_state(self, logs, field, get_value, captured, sinkOk) ==
    LET runtime == self.runtime
        value == GetValue(get_value, Runtime_nested(runtime, field.tag), captured)
        r == Runtime_log_update(logs, runtime, field.tag, value, sinkOk) IN
    [self |-> IF r.res = "Ok" THEN [self EXCEPT ![field.name] = value] ELSE self,
     logs |-> r.logs,
     res |-> r.res,
     calls |-> <<Made("set_" \o field.name \o "_with", "log_update", runtime, field.tag)>>]

\* the `reset` of a variant's setter: when another variant is active, a fresh
\* value of this variant is built on self.runtime().parent(), logged through
\* value.runtime().parent() at the variant's tag, and stored
Setter_reset(self, logs, variant, by, sinkOk) ==
    IF self.variant = variant.name
    THEN [self |-> self, logs |-> logs, res |-> "Ok", calls |-> <<>>]
    ELSE
      LET p == Runtime_parent(self.runtime) IN
      IF ~p.ok
      THEN [self |-> self, logs |-> logs, res |-> p.err, calls |-> <<>>]
      ELSE
        LET value == Choice_new(p.val, variant)
            q == Runtime_parent(value.runtime) IN
        IF ~q.ok
        THEN [self |-> self, logs |-> logs, res |-> q.err, calls |-> <<>>]
        ELSE
          LET r == Runtime_log_update(logs, q.val, variant.tag, value, sinkOk) IN
          [self |-> IF r.res = "Ok" THEN value ELSE self,
           logs |-> r.logs,
           res |-> r.res,
           calls |-> <<Made(by, "log_update", q.val, variant.tag)>>]

\* set_<variant>_<field>(value) of a variant's primitive field
Setter_variant_primitive(self, logs, variant, value, sinkOk1, sinkOk2) ==
    LET by == "set_" \o variant.name \o "_" \o variant.field.name
        a == Setter_reset(self, logs, variant, by, sinkOk1) IN
    IF a.res # "Ok" THEN a
    ELSE
      LET r == Runtime_log_update(a.logs, a.self.runtime, variant.field.tag,
                                  U32(value), sinkOk2) IN
      [self |-> IF r.res = "Ok" /\ a.self.variant = variant.name
                THEN [a.self EXCEPT !.f = value] ELSE a.self,
       logs |-> r.logs,
       res |-> r.res,
       calls |-> Append(a.calls, Made(by, "log_update", a.self.runtime, variant.field.tag))]

(* ------------------------- SpecObj: a struct's setters --------------- *)

\* the addresses an object is constructed at
Owners == {Runtime_new(1)} \cup {Runtime_nested(Runtime_new(1), t) : t \in Tags}

ObjFrame == UNCHANGED <<rt, issued, reader, seen>>

InitObj ==
    \E E \in Owners :
        /\ rt = <<E>>
        /\ log = << <<>> >>
        /\ issued = << <<>> >>
        /\ result = "Ok"
        /\ obj = Outer_new(E)
        /\ call = NoCall
        /\ reader = NoReader
        /\ seen = NoSeen

SetA(v) ==
    \E sinkOk \in BOOLEAN :
        LET r == Setter_primitive(obj, log, FieldA, v, sinkOk) IN
        /\ obj' = r.self
        /\ log' = r.logs
        /\ result' = r.res
        /\ call' = r.calls
        /\ ObjFrame

SetInnerV(v) ==
    \E sinkOk \in BOOLEAN :
        LET r == Setter_primitive(obj.inner, log, FieldV, v, sinkOk) IN
        /\ obj' = [obj EXCEPT !.inner = r.self]
        /\ log' = r.logs
        /\ result' = r.res
        /\ call' = r.calls
        /\ ObjFrame

SetInnerWith(get_value) ==
    \E sinkOk \in BOOLEAN :
        LET r == Setter_state(obj, log, FieldInner, get_value, rt[1], sinkOk) IN
        /\ obj' = r.self
        /\ log' = r.logs
        /\ result' = r.res
        /\ call' = r.calls
        /\ ObjFrame

NextObj ==
    \/ \E v \in Values : Len(log[1]) < MaxObjLog /\ SetA(v)
    \/ \E v \in Values : Len(log[1]) < MaxObjLog /\ SetInnerV(v)
    \/ \E g \in Closures : Len(log[1]) < MaxObjLog /\ SetInnerWith(g)

SpecObj == InitObj /\ [][NextObj]_vars

(* ------------------------- SpecEnum: an enum's setters --------------- *)

InitEnum ==
    \E E \in Owners, V \in Variants :
        /\ rt = <<E>>
        /\ log = << <<>> >>
        /\ issued = << <<>> >>
        /\ result = "Ok"
        /\ obj = Choice_new(E, V)
        /\ call = NoCall
        /\ reader = NoReader
        /\ seen = NoSeen

SetVariantField(V, v) ==
    \E sinkOk1 \in BOOLEAN, sinkOk2 \in BOOLEAN :
        LET r == Setter_variant_primitive(obj, log, V, v, sinkOk1, sinkOk2) IN
        /\ obj' = r.self
        /\ log' = r.logs
        /\ result' = r.res
        /\ call' = r.calls
        /\ ObjFrame

NextEnum ==
    \E V \in Variants, v \in Values : Len(log[1]) + 2 <= MaxEnumLog /\ SetVariantField(V, v)

SpecEnum == InitEnum /\ [][NextEnum]_vars

(* ------------------------- SpecDec: the decode loop ------------------ *)

\* the bytes a stream is made of: headers of tags 1 to 3 with wire types 0 and
\* 2, small lengths and scalars, and a byte with the continuation bit set
Bytes == {1, 2, 8, 10, 16, 18, 24, 42, 172}

Streams == UNION {[1..n -> Bytes] : n \in 0..MaxStream}

Drop(bytes, n) == SubSeq(bytes, n + 1, Len(bytes))

\* u32::deserialize: a varint, failing at the end of the stream (a stream of
\* at most MaxStream bytes holds no varint that passes 32 bits)
RECURSIVE ReadVarint(_)
ReadVarint(bytes) ==
    IF bytes = <<>> THEN [ok |-> FALSE]
    ELSE IF Head(bytes) < 128
    THEN [ok |-> TRUE, val |-> Head(bytes), rest |-> Tail(bytes)]
    ELSE LET r == ReadVarint(Tail(bytes)) IN
         IF r.ok
         THEN [ok |-> TRUE,
               val |-> (Head(bytes) - 128) + 128 * r.val,
               rest |-> r.rest]
         ELSE r

\* the catch-all arm: the value of an unknown tag is skipped by its wire type
Skip(wire_type, bytes) ==
    CASE wire_type = 0 ->
           LET r == ReadVarint(bytes) IN
           IF r.ok THEN [ok |-> TRUE, rest |-> r.rest] ELSE [ok |-> FALSE]
      [] wire_type = 2 ->
           LET r == ReadVarint(bytes) IN
           IF r.ok /\ r.val <= Len(r.rest)
           THEN [ok |-> TRUE, rest |-> Drop(r.rest, r.val)]
           ELSE [ok |-> FALSE]
      [] OTHER -> [ok |-> FALSE]

\* the arm generated for a field: `#tag if wire_type == #wire_type => ...`
IndexedField_get_deserializer(f, tag, wire_type) ==
    tag = f.tag /\ wire_type = IndexedField_wire_type(f)

\* Inner's decode loop over the bytes of one length-delimited value
RECURSIVE Inner_fields(_, _)
Inner_fields(self, bytes) ==
    IF bytes = <<>> THEN [ok |-> TRUE, self |-> self]
    ELSE
      LET h == ReadVarint(bytes) IN
      IF ~h.ok THEN [ok |-> FALSE]
      ELSE
        LET tag == h.val \div 8
            wire_type == h.val % 8 IN
        IF IndexedField_get_deserializer(FieldV, tag, wire_type)
        THEN LET r == ReadVarint(h.rest) IN
             IF r.ok THEN Inner_fields([self EXCEPT !.v = r.val], r.rest)
             ELSE [ok |-> FALSE]
        ELSE LET r == Skip(wire_type, h.rest) IN
             IF r.ok THEN Inner_fields(self, r.rest) ELSE [ok |-> FALSE]

\* Inner::deserialize: the length prefix, then the fields within that length
Inner_deserialize(self, bytes) ==
    LET n == ReadVarint(bytes) IN
    IF n.ok /\ n.val <= Len(n.rest)
    THEN LET r == Inner_fields(self, SubSeq(n.rest, 1, n.val)) IN
         IF r.ok THEN [ok |-> TRUE, self |-> r.self, rest |-> Drop(n.rest, n.val)]
         ELSE [ok |-> FALSE]
    ELSE [ok |-> FALSE]

\* one turn of Outer's decode loop: a header, then the arm its tag selects
Outer_field(self, bytes) ==
    LET h == ReadVarint(bytes) IN
    IF ~h.ok
    THEN [ok |-> FALSE, self |-> self, rest |-> bytes, seen |-> NoSeen]
    ELSE
      LET tag == h.val \div 8
          wire_type == h.val % 8
          Seen(outcome) == [tag |-> tag, wire |-> wire_type, outcome |-> outcome]
          Failed == [ok |-> FALSE, self |-> self, rest |-> h.rest, seen |-> Seen("error")] IN
      IF IndexedField_get_deserializer(FieldA, tag, wire_type)
      THEN LET r == ReadVarint(h.rest) IN
           IF r.ok
           THEN [ok |-> TRUE, self |-> [self EXCEPT !.a = r.val], rest |-> r.rest,
                 seen |-> Seen("decoded")]
           ELSE Failed
      ELSE IF IndexedField_get_deserializer(FieldInner, tag, wire_type)
      THEN LET r == Inner_deserialize(self.inner, h.rest) IN
           IF r.ok
           THEN [ok |-> TRUE, self |-> [self EXCEPT !.inner = r.self], rest |-> r.rest,
                 seen |-> Seen("decoded")]
           ELSE Failed
      ELSE LET r == Skip(wire_type, h.rest) IN
           IF r.ok
           THEN [ok |-> TRUE, self |-> self, rest |-> r.rest, seen |-> Seen("skipped")]
           ELSE Failed

InitDec ==
    \E bytes \in Streams :
        /\ rt = <<Runtime_new(1)>>
        /\ log = << <<>> >>
        /\ issued = << <<>> >>
        /\ result = "Ok"
        /\ obj = Outer_new(Runtime_new(1))
        /\ call = NoCall
        /\ reader = bytes
        /\ seen = NoSeen

\* `while !reader.eof()`: the loop ends at the end of the stream or at an error
DecodeField ==
    /\ result = "Ok"
    /\ reader # <<>>
    /\ LET r == Outer_field(obj, reader) IN
       /\ obj' = r.self
       /\ reader' = r.rest
       /\ seen' = r.seen
       /\ result' = IF r.ok THEN "Ok" ELSE "DecodeError"
    /\ UNCHANGED <<rt, log, issued, call>>

NextDec == DecodeField

SpecDec == InitDec /\ [][NextDec]_vars

(* ------------------------- claims: Runtime -------------------------- *)

\* the wire bytes of the payloads used, written out
KnownEncoding == (42 :> <<42>>) @@ (300 :> <<172, 2>>)

\* the record a logging call is expected to leave
ExpectedRecord(c) ==
    CASE c.op = "log_update" ->
           [kind |-> "Update", path |-> c.addr \o <<c.tag>>, payload |-> KnownEncoding[c.value]]
      [] c.op = "log_update_in_place" ->
           [kind |-> "Update", path |-> c.addr, payload |-> KnownEncoding[c.value]]
      [] c.op = "log_add" ->
           [kind |-> "Add", path |-> c.addr, payload |-> KnownEncoding[c.value]]
      [] c.op = "log_remove" ->
           [kind |-> "Remove", path |-> c.addr \o <<c.tag>>]

\* C1: whatever handles of the tree the logging calls are issued through, the
\* shared log is exactly the records of the successful calls in call order:
\* one record per call, none edited, reordered or removed.
C1_LogIsCallHistory ==
    \A l \in DOMAIN log :
        /\ Len(log[l]) = Len(issued[l])
        /\ \A i \in DOMAIN log[l] : log[l][i] = ExpectedRecord(issued[l][i])

\* two records of different kinds, logged through handles at different addresses
C1_Witness ==
    /\ Len(log[1]) = 2
    /\ issued[1][1].addr # issued[1][2].addr
    /\ issued[1][1].op # issued[1][2].op

\* C2: log_update(t, v) on a Runtime at p appends one Update at p + [t] carrying
\* the encoding of v; log_remove(t) appends one Remove at p + [t] without
\* payload; the Runtime's own address stays p.
C2_UpdateRemoveRecord ==
    [][\A h \in Handles, t \in Tags :
        LET l == rt[h].logger
            at == Node_tags(rt[h].path) \o <<t>> IN
        /\ \A v \in Values :
             (LogUpdate(h, t, v) /\ result' = "Ok") =>
                /\ log' = [log EXCEPT ![l] = Append(@,
                      [kind |-> "Update", path |-> at, payload |-> KnownEncoding[v]])]
                /\ rt' = rt
        /\ (LogRemove(h, t) /\ result' = "Ok") =>
                /\ log' = [log EXCEPT ![l] = Append(@, [kind |-> "Remove", path |-> at])]
                /\ rt' = rt
      ]_vars

\* an Update of 42 below a nested Runtime, and a Remove below a nested Runtime
C2_Witness ==
    /\ \E i \in DOMAIN log[1] :
         /\ log[1][i].kind = "Update"
         /\ Len(log[1][i].path) = 2
         /\ log[1][i].payload = <<42>>
    /\ \E j \in DOMAIN log[1] :
         /\ log[1][j].kind = "Remove"
         /\ Len(log[1][j].path) = 2

\* C3: for every reachable Runtime r and tag t, r.nested(t).parent() succeeds,
\* has r's tag sequence as its address and shares r's logger.
C3_ParentOfNested ==
    \A h \in Handles, t \in Tags :
        LET p == Runtime_parent(Runtime_nested(rt[h], t)) IN
        /\ p.ok
        /\ Node_tags(p.val.path) = Node_tags(rt[h].path)
        /\ p.val.logger = rt[h].logger

\* the root, a Runtime nested in it, and that one's parent: the root's address again
C3_Witness ==
    /\ Len(rt) = 3
    /\ Runtime_is_child(rt[2])
    /\ Node_tags(rt[3].path) = Node_tags(rt[1].path)
    /\ \A t \in Tags : rt[3] # Runtime_nested(rt[2], t)

\* C4: parent() on a Root-addressed Runtime fails with AddressError and leaves
\* the logs and every existing Runtime as they were.
C4_ParentOfRootFails ==
    [][\A h \in Handles :
        (Runtime_is_root(rt[h]) /\ Parent(h)) =>
            /\ result' = "AddressError"
            /\ rt' = rt
            /\ log' = log
      ]_vars

\* the failure, with other handles alive and records in the log
C4_Witness ==
    /\ result = "AddressError"
    /\ Len(rt) > 1
    /\ Len(log[1]) > 0

\* C8: any two Runtimes compare equal, whatever their addresses and loggers.
C8_AlwaysEqual ==
    \A a \in Handles, b \in Handles : Runtime_eq(rt[a], rt[b])

\* two Runtimes of different trees at different addresses
C8_Witness ==
    \E a \in Handles, b \in Handles :
        /\ rt[a].logger # rt[b].logger
        /\ Node_tags(rt[a].path) # Node_tags(rt[b].path)

\* C9: nested(t) never fails and never logs; every Runtime that existed keeps
\* its address; the one Runtime it returns is addressed at the receiver's
\* address extended by t, on the receiver's logger.
C9_NestedFrame ==
    [][\A h \in Handles, t \in Tags :
        Nested(h, t) =>
            /\ result' = "Ok"
            /\ log' = log
            /\ Len(rt') = Len(rt) + 1
            /\ \A k \in Handles : rt'[k] = rt[k]
            /\ Node_tags(rt'[Len(rt')].path) = Node_tags(rt[h].path) \o <<t>>
            /\ rt'[Len(rt')].logger = rt[h].logger
      ]_vars

\* a Runtime nested two levels deep, created in a tree that has logged
C9_Witness ==
    /\ \E h \in Handles : Len(Node_tags(rt[h].path)) = 2
    /\ Len(log[1]) > 0
    /\ result = "Ok"

(* ------------------------- claims: generated setters ----------------- *)

UpdateAt(path, payload) == [kind |-> "Update", path |-> path, payload |-> payload]

\* C5: a primitive field holds a value a setter wrote only if the log already
\* holds the Update of that value at the owner's address extended by the
\* field's tag; a setter whose logging call failed assigns nothing.
C5_LoggedBeforeAssigned ==
    /\ obj.a \in Values =>
         \E i \in DOMAIN log[1] :
             log[1][i] = UpdateAt(Node_tags(obj.runtime.path) \o <<FieldA.tag>>,
                                  KnownEncoding[obj.a])
    /\ obj.inner.v \in Values =>
         \E i \in DOMAIN log[1] :
             log[1][i] = UpdateAt(Node_tags(obj.inner.runtime.path) \o <<FieldV.tag>>,
                                  KnownEncoding[obj.inner.v])

\* a field a setter wrote, kept by a later setter call whose logging failed
C5_Witness ==
    /\ obj.a \in Values
    /\ result = "SinkError"
    /\ Len(call) = 1
    /\ call[1].by = "set_a"
    /\ Len(log[1]) = 1

\* C6, as stated: the nested-object setter logs through log_update_in_place on
\* the replacement's own Runtime.
C6_LogsInPlaceOnReplacement ==
    \A i \in DOMAIN call :
        (call[i].by = "set_inner_with" /\ result = "Ok") =>
            /\ call[i].op = "log_update_in_place"
            /\ call[i].recv = obj.inner.runtime

\* C6, amended: the nested-object setter hands runtime.nested(tag) to the
\* caller's constructor and logs the replacement with log_update(tag, &value)
\* on the owner's Runtime: one Update at the owner's address extended by the
\* field's tag, carrying the replacement's encoding, whatever Runtime the
\* replacement was built on.
C6_LogsUpdateOnOwner ==
    [][\A g \in Closures :
        (SetInnerWith(g) /\ result' = "Ok") =>
            /\ call' = <<Made("set_inner_with", "log_update", obj.runtime, FieldInner.tag)>>
            /\ log' = [log EXCEPT ![1] = Append(@,
                  UpdateAt(Node_tags(obj.runtime.path) \o <<FieldInner.tag>>, <<2, 24, 0>>))]
            /\ obj'.runtime = obj.runtime
            /\ g = "given" =>
                 Node_tags(obj'.inner.runtime.path)
                     = Node_tags(obj.runtime.path) \o <<FieldInner.tag>>
      ]_vars

\* a replacement built on a captured Runtime, logged at the field's address
C6_Witness ==
    /\ Len(call) = 1
    /\ call[1].by = "set_inner_with"
    /\ result = "Ok"
    /\ Node_tags(obj.inner.runtime.path) # Node_tags(obj.runtime.path) \o <<FieldInner.tag>>
    /\ log[1][Len(log[1])].path = Node_tags(obj.runtime.path) \o <<FieldInner.tag>>

\* the encoding of a freshly constructed variant value, written out
FreshEncoding == ("First" :> <<2, 24, 0>>) @@ ("Second" :> <<2, 32, 0>>)

\* C10: with the enum constructed at E, the setter of field f of variant V never
\* takes the parent of a Root address; called while another variant is active
\* it appends Update at E + [tag(V)] with the fresh V value and then Update at
\* E + [tag(V), tag(f)] with the new field value; called while V is active it
\* appends the second record only.
C10_VariantSetterRecords ==
    [][\A V \in Variants, v \in Values :
        LET E == Node_tags(rt[1].path)
            switch == UpdateAt(E \o <<V.tag>>, FreshEncoding[V.name])
            field == UpdateAt(E \o <<V.tag, V.field.tag>>, KnownEncoding[v]) IN
        SetVariantField(V, v) =>
            /\ result' # "AddressError"
            /\ result' = "Ok" =>
                 /\ log'[1] = log[1] \o (IF obj.variant # V.name
                                         THEN <<switch, field>> ELSE <<field>>)
                 /\ obj'.variant = V.name
                 /\ obj'.f = v
      ]_vars

\* an enum constructed at the Root address, switched to Second by set_second_y(42)
C10_Witness ==
    /\ Runtime_is_root(rt[1])
    /\ obj.variant = "Second"
    /\ obj.f = 42
    /\ result = "Ok"
    /\ Len(call) = 2
    /\ \E i \in DOMAIN log[1] :
         /\ i + 1 \in DOMAIN log[1]
         /\ log[1][i] = UpdateAt(<<2>>, <<2, 32, 0>>)
         /\ log[1][i + 1] = UpdateAt(<<2, 4>>, <<42>>)

(* ------------------------- claims: decoding -------------------------- *)

KnownFields == {FieldA, FieldInner}

\* C7: a header whose tag is a known field's but whose wire type is not the
\* field's makes decoding fail, the field left as it was and its value not
\* consumed; it is never skipped as if the tag were unknown.
C7_MismatchIsDecodeError ==
    \A f \in KnownFields :
        (seen.outcome # "none" /\ seen.tag = f.tag /\ seen.wire # IndexedField_wire_type(f)) =>
            /\ seen.outcome = "error"
            /\ result = "DecodeError"

====
